---------------------------- MODULE Spec2Model ----------------------------
(***************************************************************************)
(* A model of jhillyerd/sudoku-solver: the Game board of solver.go with    *)
(* its recursive backtracking search, the row/column-counter Board         *)
(* variant, and the puzzle reader and driver of main.go.                   *)
(***************************************************************************)
EXTENDS Integers, Sequences, FiniteSets, TLC

VARIABLES
    input,      \* the starting cell grid handed to both solver variants
    g,          \* *Game: [board, remaining, backtracks]
    gstack,     \* active recursiveSolver(g) invocations, innermost last
    gpc,        \* position of the Game search: "call", "loop", "return", "done"
    gret,       \* value returned by the invocation that returned last
    gmakes,     \* number of MakeMove calls made by the Game search
    gentry,     \* the Game as each invocation not yet returned from found it
    b,          \* *Board: [cell, rowRemaining, colRemaining, remaining, backtracks]
    bstack,     \* active recursiveSolver(b) invocations, innermost last
    bpc,        \* position of the Board search, or "panic"
    bret,       \* value returned by the Board invocation that returned last
    hist,       \* the last two MakeMove / UnmakeMove calls, each with the Game before it
    nops,       \* number of MakeMove / UnmakeMove calls made by a caller of the Game
    query,      \* the last CellCandidates call: its arguments and its outcome
    file,       \* the puzzle text: a sequence of lines of code points
    rrow,       \* readGame's row counter
    rstatus,    \* readGame: "reading", "ok", "eof" (error returned) or "panic"
    checked,    \* the last validateSolution call: its board and the lines it printed
    picked      \* the last NextEmptyCell call made by a caller: its board and its cell

vars == <<input, g, gstack, gpc, gret, gmakes, gentry, b, bstack, bpc, bret,
          hist, nops, query, file, rrow, rstatus, checked, picked>>

\* what the searches leave alone
callerVars == <<hist, nops, query, file, rrow, rstatus, checked, picked>>

\* what only the searches use
searchVars == <<input, gstack, gpc, gret, gmakes, gentry, b, bstack, bpc, bret>>

-----------------------------------------------------------------------------
(* Program constants *)

DIM == 9

Idx == 0..(DIM - 1)

Values == 0..DIM

-----------------------------------------------------------------------------
(* Bounds of the model *)

\* how many cells of BlankCells a starting grid may have blanked
NumBlankCells == 8

\* how many of the Alterations a starting grid may choose from
NumAlterations == 2

\* how many MakeMove / UnmakeMove calls a caller of the Game makes
MaxOps == 3

\* how many thinning masks the grids handed to CellCandidates are put through
NumMasks == 4

\* how many cells of BlankCells those grids may have blanked
NumQueryBlanks == 2

\* how many cells of BlankCells the grids handed to NextEmptyCell and to
\* validateSolution may have blanked
NumInspectBlanks == 4

\* how many lines a puzzle text may have
MaxLines == 10

\* how many rows of a puzzle text may hold a line that is not nine bare digits
NumVariantRows == 2

-----------------------------------------------------------------------------
(* Starting grids: a solved grid with some cells blanked and at most one   *)
(* given overwritten by another digit.                                      *)

Solution ==
    << <<5,3,4,6,7,8,9,1,2>>,
       <<6,7,2,1,9,5,3,4,8>>,
       <<1,9,8,3,4,2,5,6,7>>,
       <<8,5,9,7,6,1,4,2,3>>,
       <<4,2,6,8,5,3,7,9,1>>,
       <<7,1,3,9,2,4,8,5,6>>,
       <<9,6,1,5,3,7,2,8,4>>,
       <<2,8,7,4,1,9,6,3,5>>,
       <<3,4,5,2,8,6,1,7,9>> >>

SolvedGrid == [r \in Idx |-> [c \in Idx |-> Solution[r + 1][c + 1]]]

BlankCells ==
    << <<3,2>>, <<3,5>>, <<3,8>>, <<4,2>>, <<4,5>>, <<4,8>>, <<5,2>>, <<5,8>>,
       <<6,3>>, <<7,3>> >>

Alterations ==
    << [row |-> 3, col |-> 2, val |-> 3],
       [row |-> 4, col |-> 4, val |-> 3],
       [row |-> 0, col |-> 0, val |-> 3] >>

Min(x, y) == IF x < y THEN x ELSE y

BlankChoices ==
    SUBSET { BlankCells[i] : i \in 1..Min(NumBlankCells, Len(BlankCells)) }

AlterChoices ==
    {<<>>} \cup { <<Alterations[i]>> : i \in 1..Min(NumAlterations, Len(Alterations)) }

Grid(blanks, alter) ==
    [r \in Idx |-> [c \in Idx |->
        IF <<r, c>> \in blanks THEN 0
        ELSE IF alter # <<>> /\ alter[1].row = r /\ alter[1].col = c THEN alter[1].val
        ELSE SolvedGrid[r][c]]]

Inputs == { Grid(bl, al) : bl \in BlankChoices, al \in AlterChoices }

-----------------------------------------------------------------------------
(* Game (solver.go) *)

NewGame ==
    [board |-> [r \in Idx |-> [c \in Idx |-> 0]],
     remaining |-> DIM * DIM,
     backtracks |-> 0]

\* mutant: a test that never succeeds
ValidSolutionNever(gm) == gm.remaining < 0

ValidSolution(gm) == gm.remaining = 0

\* mutant: remaining is counted down but the value is not written
MakeMoveLeavesCell(gm, row, col, val) ==
    [gm EXCEPT
        !.remaining = IF gm.board[row][col] = 0 /\ val # 0 THEN @ - 1 ELSE @]

MakeMove(gm, row, col, val) ==
    [gm EXCEPT
        !.remaining = IF gm.board[row][col] = 0 /\ val # 0 THEN @ - 1 ELSE @,
        !.board[row][col] = val]

\* mutant: the undone move is not counted
UnmakeMoveUncounted(gm, row, col) ==
    [gm EXCEPT
        !.remaining = IF gm.board[row][col] # 0 THEN @ + 1 ELSE @,
        !.board[row][col] = IF gm.board[row][col] # 0 THEN 0 ELSE @]

\* mutant: remaining and backtracks are counted but the cell keeps its value
UnmakeMoveKeepsCell(gm, row, col) ==
    [gm EXCEPT
        !.remaining = IF gm.board[row][col] # 0 THEN @ + 1 ELSE @,
        !.backtracks = @ + 1]

\* mutant: the cell is cleared but remaining is not given back
UnmakeMoveKeepsRemaining(gm, row, col) ==
    [gm EXCEPT
        !.board[row][col] = IF gm.board[row][col] # 0 THEN 0 ELSE @,
        !.backtracks = @ + 1]

UnmakeMove(gm, row, col) ==
    [gm EXCEPT
        !.remaining = IF gm.board[row][col] # 0 THEN @ + 1 ELSE @,
        !.board[row][col] = IF gm.board[row][col] # 0 THEN 0 ELSE @,
        !.backtracks = @ + 1]

\* the three clearing passes of CellCandidates over a 1-based indicator
\* mutant: the row pass is left out
ClearRowSkipped(cand, board, row) == cand

\* mutant: the row pass stops one column short
ClearRowShort(cand, board, row) ==
    [v \in Values |-> cand[v] /\ \A i \in 0..(DIM - 2) : board[row][i] # v]

ClearRow(cand, board, row) ==
    [v \in Values |-> cand[v] /\ \A i \in 0..(DIM - 1) : board[row][i] # v]

ClearCol(cand, board, col) ==
    [v \in Values |-> cand[v] /\ \A i \in 0..(DIM - 1) : board[i][col] # v]

\* mutant: the section is located with % where the code divides
ClearSectionWrongStart(cand, board, row, col) ==
    LET rowStart == (row % 3) * 3
        rowEnd   == rowStart + DIM \div 3
        colStart == (col % 3) * 3
        colEnd   == colStart + DIM \div 3
    IN  [v \in Values |-> cand[v] /\
            \A ri \in rowStart..(rowEnd - 1) : \A ci \in colStart..(colEnd - 1) :
                board[ri][ci] # v]

ClearSection(cand, board, row, col) ==
    LET rowStart == (row \div 3) * 3
        rowEnd   == rowStart + DIM \div 3
        colStart == (col \div 3) * 3
        colEnd   == colStart + DIM \div 3
    IN  [v \in Values |-> cand[v] /\
            \A ri \in rowStart..(rowEnd - 1) : \A ci \in colStart..(colEnd - 1) :
                board[ri][ci] # v]

\* kind "ok" carries the candidates; the other kinds are the panics
CellCandidates(board, row, col) ==
    IF row < 0 \/ DIM < row THEN [kind |-> "InvalidRow", candidates |-> <<>>]
    ELSE IF col < 0 \/ DIM < col THEN [kind |-> "InvalidCol", candidates |-> <<>>]
    ELSE IF row \notin Idx \/ col \notin Idx
         THEN [kind |-> "IndexOutOfRange", candidates |-> <<>>]
    ELSE [kind |-> "ok",
          candidates |->
              ClearSection(
                  ClearCol(ClearRow([v \in Values |-> 1 <= v], board, row), board, col),
                  board, row, col)]

CountCandidates(cand) == Cardinality({ i \in 1..DIM : cand[i] })

\* mutant: a cell with as few candidates as the selection replaces it
RECURSIVE ScanRowLastTie(_, _, _, _)
ScanRowLastTie(board, ri, ci, sel) ==
    IF ci = DIM THEN sel
    ELSE IF board[ri][ci] = 0
         THEN LET cur == CountCandidates(CellCandidates(board, ri, ci).candidates)
              IN  IF cur <= sel.min
                  THEN ScanRowLastTie(board, ri, ci + 1, [min |-> cur, row |-> ri, col |-> ci])
                  ELSE ScanRowLastTie(board, ri, ci + 1, sel)
         ELSE ScanRowLastTie(board, ri, ci + 1, sel)

\* the inner loop of Game.NextEmptyCell over the columns of row ri; the
\* running selection is sel = [min, row, col]
RECURSIVE ScanRow(_, _, _, _)
ScanRow(board, ri, ci, sel) ==
    IF ci = DIM THEN sel
    ELSE IF board[ri][ci] = 0
         THEN LET cur == CountCandidates(CellCandidates(board, ri, ci).candidates)
              IN  IF cur < sel.min
                  THEN ScanRow(board, ri, ci + 1, [min |-> cur, row |-> ri, col |-> ci])
                  ELSE ScanRow(board, ri, ci + 1, sel)
         ELSE ScanRow(board, ri, ci + 1, sel)

\* the outer loop over the rows
RECURSIVE ScanCells(_, _, _)
ScanCells(board, ri, sel) ==
    IF ri = DIM THEN sel
    ELSE ScanCells(board, ri + 1, ScanRow(board, ri, 0, sel))

\* mutant: the scan is skipped and the zero values of row, col are returned
NextEmptyCellUnscanned(gm) == <<0, 0>>

NextEmptyCell(gm) ==
    LET sel == ScanCells(gm.board, 0, [min |-> DIM + 1, row |-> 0, col |-> 0])
    IN  <<sel.row, sel.col>>

ZeroCells(grid) == { rc \in Idx \X Idx : grid[rc[1]][rc[2]] = 0 }

\* what readGame builds from a text of nine lines of nine digits each: NewGame,
\* then one MakeMove per digit, which leaves remaining at the number of 0 digits
GameOf(grid) ==
    [board |-> grid,
     remaining |-> Cardinality(ZeroCells(grid)),
     backtracks |-> 0]

-----------------------------------------------------------------------------
(* validateSolution (main.go) *)

\* mutant: the move is left in the cell while its candidates are computed
ResetMoveSkipped(board, row, col) == board

\* b.board[row][col] = 0
ResetMove(board, row, col) == [board EXCEPT ![row][col] = 0]

\* the inner loop over the columns of one row; st is the board as cleared so
\* far and the lines printed so far, one <<row, col, expect>> per
\* "Invalid value" line
RECURSIVE ValidateRow(_, _, _)
ValidateRow(st, row, col) ==
    IF col = DIM THEN st
    ELSE LET expect == st.board[row][col]
             reset == ResetMove(st.board, row, col)
             candidates == CellCandidates(reset, row, col).candidates
         IN  IF ~candidates[expect]
             THEN ValidateRow([board |-> reset,
                               lines |-> st.lines \cup {<<row, col, expect>>}],
                              row, col + 1)
             ELSE ValidateRow([board |-> reset, lines |-> st.lines], row, col + 1)

\* the outer loop over the rows
RECURSIVE ValidateRows(_, _)
ValidateRows(st, row) ==
    IF row = DIM THEN st
    ELSE ValidateRows(ValidateRow(st, row, 0), row + 1)

validateSolution(board) == ValidateRows([board |-> board, lines |-> {}], 0)

-----------------------------------------------------------------------------
(* Board, the row/column-counter variant *)

NewBoard ==
    [cell |-> [r \in Idx |-> [c \in Idx |-> 0]],
     rowRemaining |-> [i \in Idx |-> DIM],
     colRemaining |-> [i \in Idx |-> DIM],
     remaining |-> DIM * DIM,
     backtracks |-> 0]

BoardValidSolution(bd) == bd.remaining = 0

\* mutant: the column counter is not counted down
BoardMakeMoveKeepsCol(bd, row, col, val) ==
    LET fresh == bd.cell[row][col] = 0 /\ val # 0
    IN  [bd EXCEPT
            !.remaining = IF fresh THEN @ - 1 ELSE @,
            !.rowRemaining[row] = IF fresh THEN @ - 1 ELSE @,
            !.cell[row][col] = val]

BoardMakeMove(bd, row, col, val) ==
    LET fresh == bd.cell[row][col] = 0 /\ val # 0
    IN  [bd EXCEPT
            !.remaining = IF fresh THEN @ - 1 ELSE @,
            !.rowRemaining[row] = IF fresh THEN @ - 1 ELSE @,
            !.colRemaining[col] = IF fresh THEN @ - 1 ELSE @,
            !.cell[row][col] = val]

\* mutant: the row counter is not given back
BoardUnmakeMoveKeepsRow(bd, row, col) ==
    LET held == bd.cell[row][col] # 0
    IN  [bd EXCEPT
            !.remaining = IF held THEN @ + 1 ELSE @,
            !.colRemaining[col] = IF held THEN @ + 1 ELSE @,
            !.cell[row][col] = IF held THEN 0 ELSE @,
            !.backtracks = @ + 1]

BoardUnmakeMove(bd, row, col) ==
    LET held == bd.cell[row][col] # 0
    IN  [bd EXCEPT
            !.remaining = IF held THEN @ + 1 ELSE @,
            !.rowRemaining[row] = IF held THEN @ + 1 ELSE @,
            !.colRemaining[col] = IF held THEN @ + 1 ELSE @,
            !.cell[row][col] = IF held THEN 0 ELSE @,
            !.backtracks = @ + 1]

\* first loop of Board.NextEmptyCell: the most constrained row
RECURSIVE ScanRows(_, _, _, _)
ScanRows(bd, i, rmin, row) ==
    IF i = DIM THEN row
    ELSE IF 0 < bd.rowRemaining[i] /\ bd.rowRemaining[i] < rmin
         THEN ScanRows(bd, i + 1, bd.rowRemaining[i], i)
         ELSE ScanRows(bd, i + 1, rmin, row)

\* second loop: the most constrained empty column of that row
RECURSIVE ScanCols(_, _, _, _, _)
ScanCols(bd, row, i, cmin, col) ==
    IF i = DIM THEN col
    ELSE IF bd.cell[row][i] = 0 /\ 0 < bd.colRemaining[i] /\ bd.colRemaining[i] < cmin
         THEN ScanCols(bd, row, i + 1, bd.colRemaining[i], i)
         ELSE ScanCols(bd, row, i + 1, cmin, col)

\* with no row left, b.cell[-1] is an index out of range
BoardNextEmptyCell(bd) ==
    LET row == ScanRows(bd, 0, DIM + 1, -1)
    IN  IF row = -1 THEN [row |-> -1, col |-> -1, panic |-> TRUE]
        ELSE [row |-> row, col |-> ScanCols(bd, row, 0, DIM + 1, -1), panic |-> FALSE]

\* readBoard's loop over one line of nine digits, the digits of grid[row],
\* from digit col on: one MakeMove per digit
RECURSIVE ReadBoardLine(_, _, _, _)
ReadBoardLine(bd, grid, row, col) ==
    IF col = DIM THEN bd
    ELSE ReadBoardLine(BoardMakeMove(bd, row, col, grid[row][col]), grid, row, col + 1)

\* readBoard's loop over the lines from line row on, started on bd, returns
\* the Board result
RECURSIVE ReadBoardGives(_, _, _, _)
ReadBoardGives(bd, grid, row, result) ==
    IF row = DIM THEN bd = result
    ELSE \E read \in {ReadBoardLine(bd, grid, row, 0)} :
            ReadBoardGives(read, grid, row + 1, result)

\* what readBoard builds from the same text, counters included
BoardOf(grid) ==
    [cell |-> grid,
     rowRemaining |-> [r \in Idx |-> DIM - Cardinality({ c \in Idx : grid[r][c] # 0 })],
     colRemaining |-> [c \in Idx |-> DIM - Cardinality({ r \in Idx : grid[r][c] # 0 })],
     remaining |-> Cardinality(ZeroCells(grid)),
     backtracks |-> 0]

-----------------------------------------------------------------------------
(* recursiveSolver, one stack frame per invocation *)

Frame(row, col, candidates) ==
    [row |-> row, col |-> col, val |-> 0, candidates |-> candidates, solved |-> FALSE]

Top(stack) == stack[Len(stack)]

Pop(stack) == SubSeq(stack, 1, Len(stack) - 1)

SetTop(stack, f) == [stack EXCEPT ![Len(stack)] = f]

\* the candidate values the range loop has still to visit, from index val on
Avail(f) == { v \in f.val..DIM : f.candidates[v] }

\* mutant: the range loop runs from the top down
GreatestOf(S) == CHOOSE v \in S : \A w \in S : w <= v

LeastOf(S) == CHOOSE v \in S : \A w \in S : v <= w

NoQuery == [row |-> 0, col |-> 0, out |-> [kind |-> "none", candidates |-> <<>>]]

NoCheck == [called |-> FALSE, board |-> <<>>, lines |-> {}]

NoPick == [called |-> FALSE, board |-> <<>>, row |-> 0, col |-> 0]

Init ==
    /\ input \in Inputs
    /\ g = GameOf(input)
    /\ gstack = <<>>
    /\ gpc = "call"
    /\ gret = FALSE
    /\ gmakes = 0
    /\ gentry = <<>>
    /\ b = BoardOf(input)
    /\ bstack = <<>>
    /\ bpc = "call"
    /\ bret = FALSE
    /\ hist = <<>>
    /\ nops = 0
    /\ query = NoQuery
    /\ file = <<>>
    /\ rrow = DIM
    /\ rstatus = "ok"
    /\ checked = NoCheck
    /\ picked = NoPick

\* entry of recursiveSolver(g): the ValidSolution test, then cell selection
GCall ==
    /\ gpc = "call"
    /\ IF ValidSolution(g)
       THEN /\ gret' = TRUE
            /\ gpc' = "return"
            /\ UNCHANGED gstack
       ELSE \E cell \in {NextEmptyCell(g)} :
            \E cc \in {CellCandidates(g.board, cell[1], cell[2])} :
                /\ gstack' = Append(gstack, Frame(cell[1], cell[2], cc.candidates))
                /\ gpc' = "loop"
                /\ UNCHANGED gret
    /\ gentry' = Append(gentry, g)
    /\ UNCHANGED <<input, g, gmakes, b, bstack, bpc, bret>>
    /\ UNCHANGED callerVars

\* the range loop: skip to the next available value and try it, or fall out
GTry ==
    /\ gpc = "loop"
    /\ LET f == Top(gstack)
       IN  IF Avail(f) = {}
           THEN /\ gret' = f.solved
                /\ gstack' = Pop(gstack)
                /\ gpc' = "return"
                /\ UNCHANGED <<g, gmakes>>
           ELSE LET v == LeastOf(Avail(f))
                IN  /\ g' = MakeMove(g, f.row, f.col, v)
                    /\ gmakes' = gmakes + 1
                    /\ gstack' = SetTop(gstack, [f EXCEPT !.val = v])
                    /\ gpc' = "call"
                    /\ UNCHANGED gret
    /\ UNCHANGED <<input, gentry, b, bstack, bpc, bret>>
    /\ UNCHANGED callerVars

\* a nested call has returned: break on success, else undo and go on
GReturn ==
    /\ gpc = "return"
    /\ IF gstack = <<>>
       THEN /\ gpc' = "done"
            /\ UNCHANGED <<g, gstack, gret, gentry>>
       ELSE LET f == Top(gstack)
            IN  /\ gentry' = Pop(gentry)
                /\ IF gret
                   THEN /\ gstack' = Pop(gstack)
                        /\ gret' = TRUE
                        /\ gpc' = "return"
                        /\ UNCHANGED g
                   ELSE /\ g' = UnmakeMove(g, f.row, f.col)
                        /\ gstack' = SetTop(gstack, [f EXCEPT !.val = @ + 1, !.solved = FALSE])
                        /\ gpc' = "loop"
                        /\ UNCHANGED gret
    /\ UNCHANGED <<input, gmakes, b, bstack, bpc, bret>>
    /\ UNCHANGED callerVars

\* the same search over the Board variant, run on the same starting grid
BCall ==
    /\ gpc = "done"
    /\ bpc = "call"
    /\ IF BoardValidSolution(b)
       THEN /\ bret' = TRUE
            /\ bpc' = "return"
            /\ UNCHANGED bstack
       ELSE \E cell \in {BoardNextEmptyCell(b)} :
            \E cc \in {CellCandidates(b.cell, cell.row, cell.col)} :
                IF cell.panic \/ cc.kind # "ok"
                THEN /\ bpc' = "panic"
                     /\ UNCHANGED <<bstack, bret>>
                ELSE /\ bstack' = Append(bstack, Frame(cell.row, cell.col, cc.candidates))
                     /\ bpc' = "loop"
                     /\ UNCHANGED bret
    /\ UNCHANGED <<input, g, gstack, gpc, gret, gmakes, gentry, b>>
    /\ UNCHANGED callerVars

BTry ==
    /\ bpc = "loop"
    /\ LET f == Top(bstack)
       IN  IF Avail(f) = {}
           THEN /\ bret' = f.solved
                /\ bstack' = Pop(bstack)
                /\ bpc' = "return"
                /\ UNCHANGED b
           ELSE LET v == LeastOf(Avail(f))
                IN  /\ b' = BoardMakeMove(b, f.row, f.col, v)
                    /\ bstack' = SetTop(bstack, [f EXCEPT !.val = v])
                    /\ bpc' = "call"
                    /\ UNCHANGED bret
    /\ UNCHANGED <<input, g, gstack, gpc, gret, gmakes, gentry>>
    /\ UNCHANGED callerVars

BReturn ==
    /\ bpc = "return"
    /\ IF bstack = <<>>
       THEN /\ bpc' = "done"
            /\ UNCHANGED <<b, bstack, bret>>
       ELSE LET f == Top(bstack)
            IN  IF bret
                THEN /\ bstack' = Pop(bstack)
                     /\ bret' = TRUE
                     /\ bpc' = "return"
                     /\ UNCHANGED b
                ELSE /\ b' = BoardUnmakeMove(b, f.row, f.col)
                     /\ bstack' = SetTop(bstack, [f EXCEPT !.val = @ + 1, !.solved = FALSE])
                     /\ bpc' = "loop"
                     /\ UNCHANGED bret
    /\ UNCHANGED <<input, g, gstack, gpc, gret, gmakes, gentry>>
    /\ UNCHANGED callerVars

Next == GCall \/ GTry \/ GReturn \/ BCall \/ BTry \/ BReturn

Spec == Init /\ [][Next]_vars

-----------------------------------------------------------------------------
(* The searches stand still while a caller drives the Game directly *)

SearchIdle ==
    /\ input = <<>>
    /\ gstack = <<>>
    /\ gpc = "idle"
    /\ gret = FALSE
    /\ gmakes = 0
    /\ gentry = <<>>
    /\ b = <<>>
    /\ bstack = <<>>
    /\ bpc = "idle"
    /\ bret = FALSE

-----------------------------------------------------------------------------
(* MakeMove and UnmakeMove called in any order on a Game from NewGame *)

MoveCells == { <<0, 0>>, <<0, 4>>, <<4, 4>> }

MoveValues == { 0, 1, DIM }

\* keep the last two calls
Remember(h, call) == IF Len(h) < 2 THEN Append(h, call) ELSE <<h[2], call>>

MovesInit ==
    /\ SearchIdle
    /\ g = NewGame
    /\ hist = <<>>
    /\ nops = 0
    /\ query = NoQuery
    /\ file = <<>>
    /\ rrow = DIM
    /\ rstatus = "ok"
    /\ checked = NoCheck
    /\ picked = NoPick

DoMakeMove ==
    /\ nops < MaxOps
    /\ \E cell \in MoveCells : \E val \in MoveValues :
          /\ g' = MakeMove(g, cell[1], cell[2], val)
          /\ hist' = Remember(hist, [op |-> "MakeMove", row |-> cell[1], col |-> cell[2],
                                     val |-> val, pre |-> g])
    /\ nops' = nops + 1
    /\ UNCHANGED <<searchVars, query, file, rrow, rstatus, checked, picked>>

DoUnmakeMove ==
    /\ nops < MaxOps
    /\ \E cell \in MoveCells :
          /\ g' = UnmakeMove(g, cell[1], cell[2])
          /\ hist' = Remember(hist, [op |-> "UnmakeMove", row |-> cell[1], col |-> cell[2],
                                     val |-> 0, pre |-> g])
    /\ nops' = nops + 1
    /\ UNCHANGED <<searchVars, query, file, rrow, rstatus, checked, picked>>

MovesNext == DoMakeMove \/ DoUnmakeMove

SpecMoves == MovesInit /\ [][MovesNext]_vars

-----------------------------------------------------------------------------
(* CellCandidates called with any coordinates on a range of grids *)

\* keep every m-th cell of the grid, in row-major order, and empty the rest
Masked(grid, m) ==
    [r \in Idx |-> [c \in Idx |-> IF (r * DIM + c) % m = 0 THEN grid[r][c] ELSE 0]]

QueryGrids ==
    { Masked(Grid(bl, al), m) :
        bl \in SUBSET { BlankCells[i] : i \in 1..Min(NumQueryBlanks, Len(BlankCells)) },
        al \in AlterChoices,
        m \in 1..NumMasks }

QueryCoords == (0 - 1)..(DIM + 1)

QueryInit ==
    /\ SearchIdle
    /\ g \in { GameOf(grid) : grid \in QueryGrids }
    /\ hist = <<>>
    /\ nops = 0
    /\ query = NoQuery
    /\ file = <<>>
    /\ rrow = DIM
    /\ rstatus = "ok"
    /\ checked = NoCheck
    /\ picked = NoPick

CallCellCandidates ==
    /\ \E row \in QueryCoords : \E col \in QueryCoords :
          query' = [row |-> row, col |-> col, out |-> CellCandidates(g.board, row, col)]
    /\ UNCHANGED <<searchVars, g, hist, nops, file, rrow, rstatus, checked, picked>>

QueryNext == CallCellCandidates

SpecQuery == QueryInit /\ [][QueryNext]_vars

-----------------------------------------------------------------------------
(* NextEmptyCell and validateSolution called on a range of grids *)

InspectGrids ==
    { Masked(Grid(bl, al), m) :
        bl \in SUBSET { BlankCells[i] : i \in 1..Min(NumInspectBlanks, Len(BlankCells)) },
        al \in AlterChoices,
        m \in 1..NumMasks }

InspectInit ==
    /\ SearchIdle
    /\ g \in { GameOf(grid) : grid \in InspectGrids }
    /\ hist = <<>>
    /\ nops = 0
    /\ query = NoQuery
    /\ file = <<>>
    /\ rrow = DIM
    /\ rstatus = "ok"
    /\ checked = NoCheck
    /\ picked = NoPick

CallNextEmptyCell ==
    /\ \E cell \in {NextEmptyCell(g)} :
          picked' = [called |-> TRUE, board |-> g.board, row |-> cell[1], col |-> cell[2]]
    /\ UNCHANGED <<searchVars, g, hist, nops, query, file, rrow, rstatus, checked>>

\* validateSolution(*board): the Game is copied but its rows are shared, so
\* the caller's cells are the ones cleared
CallValidateSolution ==
    /\ ~checked.called
    /\ \E res \in {validateSolution(g.board)} :
          /\ checked' = [called |-> TRUE, board |-> g.board, lines |-> res.lines]
          /\ g' = [g EXCEPT !.board = res.board]
    /\ UNCHANGED <<searchVars, hist, nops, query, file, rrow, rstatus, picked>>

InspectNext == CallNextEmptyCell \/ CallValidateSolution

SpecInspect == InspectInit /\ [][InspectNext]_vars

-----------------------------------------------------------------------------
(* readGame (main.go) *)

IsDigit(ch) == 48 <= ch /\ ch <= 57

\* the range loop over the runes of one line, from rune i on, col digits seen;
\* a digit past the ninth indexes b.board[row][col] out of range in MakeMove
RECURSIVE ScanLine(_, _, _, _, _)
ScanLine(gm, row, line, i, col) ==
    IF i > Len(line) THEN [g |-> gm, panic |-> FALSE]
    ELSE IF IsDigit(line[i])
         THEN IF line[i] > 0
              THEN IF col \notin Idx
                   THEN [g |-> gm, panic |-> TRUE]
                   ELSE ScanLine(MakeMove(gm, row, col, line[i] - 48), row, line, i + 1, col + 1)
              ELSE ScanLine(gm, row, line, i + 1, col + 1)
         ELSE ScanLine(gm, row, line, i + 1, col)

\* the puzzle the texts are written from
PuzzleGrid == Grid({ BlankCells[1], BlankCells[2], BlankCells[3] }, <<>>)

DigitLine(r) == [i \in 1..DIM |-> 48 + PuzzleGrid[r][i - 1]]

\* a '|' after every digit
Spaced(line) ==
    [i \in 1..(2 * Len(line)) |-> IF i % 2 = 1 THEN line[(i + 1) \div 2] ELSE 124]

\* the ways a line of the text may be written
LineVariants(line) ==
    << line,
       Spaced(line),
       SubSeq(line, 1, DIM - 1),
       line \o <<48>>,
       Spaced(line) \o <<55>>,
       <<>>,
       <<46, 46, 46>> >>

VariantRowSeq == <<0, 8, 3, 5>>

VariantRows == { VariantRowSeq[i] : i \in 1..Min(NumVariantRows, Len(VariantRowSeq)) }

FileOf(n, choice) ==
    [k \in 1..n |->
        IF (k - 1) \in VariantRows
        THEN LineVariants(DigitLine(k - 1))[choice[k - 1]]
        ELSE DigitLine((k - 1) % DIM)]

Files == { FileOf(n, choice) : n \in 0..MaxLines, choice \in [VariantRows -> 1..7] }

ReadInit ==
    /\ SearchIdle
    /\ file \in Files
    /\ g = NewGame
    /\ rrow = 0
    /\ rstatus = "reading"
    /\ hist = <<>>
    /\ nops = 0
    /\ query = NoQuery
    /\ checked = NoCheck
    /\ picked = NoPick

\* one turn of the row loop: scanner.Scan, then the line's runes
ReadLine ==
    /\ rstatus = "reading"
    /\ rrow < DIM
    /\ IF rrow >= Len(file)
       THEN /\ rstatus' = "eof"
            /\ UNCHANGED <<g, rrow>>
       ELSE LET res == ScanLine(g, rrow, file[rrow + 1], 1, 0)
            IN  IF res.panic
                THEN /\ rstatus' = "panic"
                     /\ UNCHANGED <<g, rrow>>
                ELSE /\ g' = res.g
                     /\ rrow' = rrow + 1
                     /\ UNCHANGED rstatus
    /\ UNCHANGED <<searchVars, hist, nops, query, file, checked, picked>>

\* the row loop is over: return b, nil
ReadReturn ==
    /\ rstatus = "reading"
    /\ rrow = DIM
    /\ rstatus' = "ok"
    /\ UNCHANGED <<searchVars, g, hist, nops, query, file, rrow, checked, picked>>

ReadNext == ReadLine \/ ReadReturn

SpecRead == ReadInit /\ [][ReadNext]_vars

\* the program runs a step whenever it has one: a single sequential thread
FairSpec == Spec /\ WF_vars(Next)

-----------------------------------------------------------------------------
(* What the claims speak of *)

SameUnit(r1, c1, r2, c2) ==
    \/ r1 = r2
    \/ c1 = c2
    \/ (r1 \div 3 = r2 \div 3 /\ c1 \div 3 = c2 \div 3)

\* the nine rows, nine columns and nine 3x3 boxes, each as its set of cells
Units ==
    { { <<r, c>> : c \in Idx } : r \in Idx }
        \cup { { <<r, c>> : r \in Idx } : c \in Idx }
        \cup { { <<3 * br + i, 3 * bc + j>> : i \in 0..2, j \in 0..2 } :
                   br \in 0..2, bc \in 0..2 }

\* no two equal non-zero values share a row, column or 3x3 box
NoDuplicates(grid) ==
    \A u \in Units :
        Cardinality({ grid[p[1]][p[2]] : p \in u } \ {0})
            = Cardinality({ p \in u : grid[p[1]][p[2]] # 0 })

\* every row, column and box holds each of 1..9 (and so, of nine cells, once)
Complete(grid) ==
    /\ \A r \in Idx : { grid[r][c] : c \in Idx } = 1..DIM
    /\ \A c \in Idx : { grid[r][c] : r \in Idx } = 1..DIM
    /\ \A br \in 0..2 : \A bc \in 0..2 :
          { grid[3 * br + i][3 * bc + j] : i \in 0..2, j \in 0..2 } = 1..DIM

\* v occurs nowhere else in the row, column or box of (r, c)
Legal(grid, r, c, v) ==
    \A q \in Idx \X Idx :
        (q # <<r, c>> /\ SameUnit(r, c, q[1], q[2])) => grid[q[1]][q[2]] # v

FirstZero(grid) ==
    CHOOSE p \in ZeroCells(grid) :
        \A q \in ZeroCells(grid) : p[1] * DIM + p[2] <= q[1] * DIM + q[2]

\* the full grids got by giving every empty cell a value legal where it stands
RECURSIVE Fillings(_)
Fillings(grid) ==
    IF ZeroCells(grid) = {} THEN {grid}
    ELSE LET p == FirstZero(grid)
         IN  UNION { Fillings([grid EXCEPT ![p[1]][p[2]] = v]) :
                        v \in { w \in 1..DIM : Legal(grid, p[1], p[2], w) } }

\* the grid extends to a full grid that obeys the rules
HasCompletion(grid) == \E full \in Fillings(grid) : Complete(full)

AtEntry == gpc = "call" /\ gstack = <<>>

GDone == gpc = "done"

BDone == bpc \in {"done", "panic"}

-----------------------------------------------------------------------------
(* C1: from a valid starting board that has a completion, the Game search  *)
(* terminates, returns true, and leaves a board without zero cells whose   *)
(* rows, columns and boxes each hold 1..9 exactly once.                    *)
C1_SolvableIsSolved ==
    (AtEntry /\ NoDuplicates(input) /\ HasCompletion(input))
        => <>(GDone /\ gret /\ ZeroCells(g.board) = {} /\ Complete(g.board))

\* a solvable board was solved after at least one wrong guess was undone
C1_Witness ==
    /\ GDone /\ NoDuplicates(input) /\ HasCompletion(input)
    /\ ZeroCells(input) # {}
    /\ gret /\ Complete(g.board) /\ g.backtracks > 0

(* C2: a starting board with no valid completion, duplicated givens        *)
(* included, makes the Game search return false.                           *)
C2_UnsolvableReturnsFalse ==
    GDone /\ ~HasCompletion(input) => ~gret

(* C3: from NewGame, after any MakeMove(row, col, value) with value in     *)
(* 0..9 and UnmakeMove(row, col) calls, remaining is the number of cells   *)
(* that hold 0.                                                            *)
C3_RemainingCountsZeros ==
    g.remaining = Cardinality(ZeroCells(g.board))

(* C4: CellCandidates(row, col) with row, col in 0..8 marks v in 1..9 true *)
(* exactly when v is in no cell of the row, of the column and of the box   *)
(* of (row, col); index 0 is false.                                        *)
C4_CandidatesAreTheAbsentValues ==
    (query.out.kind # "none" /\ query.row \in Idx /\ query.col \in Idx)
        => /\ query.out.kind = "ok"
           /\ ~query.out.candidates[0]
           /\ \A v \in 1..DIM :
                 query.out.candidates[v] <=>
                     \A q \in Idx \X Idx :
                         SameUnit(query.row, query.col, q[1], q[2]) => g.board[q[1]][q[2]] # v

\* a call that marked some value true and ruled one out by the box alone
C4_Witness ==
    /\ query.out.kind = "ok"
    /\ \E v \in 1..DIM : query.out.candidates[v]
    /\ \E w \in 1..DIM :
          /\ ~query.out.candidates[w]
          /\ \A i \in Idx : g.board[query.row][i] # w /\ g.board[i][query.col] # w

(* C5: CellCandidates(row, col) with row or col outside 0..8, -1 and 9     *)
(* included, fails in its own coordinate check (invalid row, invalid col). *)
C5_OutOfRangeIsRejected ==
    (query.out.kind # "none" /\ (query.row \notin Idx \/ query.col \notin Idx))
        => query.out.kind \in {"InvalidRow", "InvalidCol"}

(* C6: on a cell that holds 0, MakeMove(row, col, value) with value in     *)
(* 1..9 followed by UnmakeMove(row, col) leaves the cell at 0, remaining   *)
(* as before the MakeMove, and every other cell unchanged.                 *)
MadeThenUnmade ==
    /\ Len(hist) = 2
    /\ hist[1].op = "MakeMove" /\ hist[2].op = "UnmakeMove"
    /\ hist[1].row = hist[2].row /\ hist[1].col = hist[2].col
    /\ hist[1].val \in 1..DIM
    /\ hist[1].pre.board[hist[1].row][hist[1].col] = 0

C6_MakeUnmakeRoundTrip ==
    MadeThenUnmade
        => /\ g.board[hist[2].row][hist[2].col] = 0
           /\ g.remaining = hist[1].pre.remaining
           /\ g.board = hist[1].pre.board

\* the round trip was made on a board that held a value elsewhere
C6_Witness ==
    /\ MadeThenUnmade
    /\ ZeroCells(g.board) # Idx \X Idx
    /\ g.remaining = hist[1].pre.remaining

(* C7: on every starting board the Game search and the Board search return *)
(* the same solved boolean and leave the same final cell grid.             *)
C7_SameResultSameGrid ==
    BDone => bpc = "done" /\ bret = gret /\ b.cell = g.board

(* C7 as amended: the two searches return the same solved boolean, and     *)
(* leave the same final grid whenever the empty cells of the starting      *)
(* board can be legally filled in at most one way.                         *)
C7_SameResultSameGridIfUnique ==
    BDone => /\ bpc = "done"
             /\ bret = gret
             /\ (Cardinality(Fillings(input)) <= 1 => b.cell = g.board)

\* both searches solved a board with one filling, by different paths
C7_Witness ==
    /\ bpc = "done" /\ bret /\ gret
    /\ Cardinality(Fillings(input)) = 1
    /\ b.cell = g.board
    /\ b.backtracks # g.backtracks

AsciiDigits(line) == SelectSeq(line, LAMBDA ch : ch \in 48..57)

ReadOver == rstatus # "reading"

(* C8: readGame returns an error and no board when the text has fewer than *)
(* 9 lines or one of its first 9 lines has fewer than 9 digits.            *)
C8_ShortTextIsRejected ==
    (ReadOver /\ (\/ Len(file) < DIM
                  \/ \E k \in 1..Min(DIM, Len(file)) : Len(AsciiDigits(file[k])) < DIM))
        => rstatus = "eof"

(* C9: on a text of 9 lines with at least 9 digits each, readGame succeeds *)
(* and row r is the first 9 digits of line r, later digits and all other   *)
(* characters ignored, with remaining the number of 0 digits among them.   *)
C9_FirstNineDigitsAreTheRow ==
    (ReadOver /\ Len(file) = DIM /\ \A k \in 1..DIM : Len(AsciiDigits(file[k])) >= DIM)
        => /\ rstatus = "ok"
           /\ \A r \in Idx : \A c \in Idx :
                 g.board[r][c] = AsciiDigits(file[r + 1])[c + 1] - 48
           /\ g.remaining = Cardinality(ZeroCells(g.board))

(* C10: an invocation entered with remaining = 0 returns true at once:     *)
(* no MakeMove, no UnmakeMove, cells, remaining and backtracks unchanged.  *)
C10_CompleteReturnsAtOnce ==
    [][(gpc = "call" /\ g.remaining = 0)
        => (gpc' = "return" /\ gret' /\ g' = g /\ gmakes' = gmakes /\ gstack' = gstack)]_vars

\* the top-level call on a full starting board has returned true, untouched
C10_Witness ==
    /\ GDone /\ ZeroCells(input) = {}
    /\ gret /\ g = GameOf(input) /\ gmakes = 0

(* C11: if the starting board has no two equal non-zero values in a row,   *)
(* column or 3x3 box, then neither has the board in any state of the Game  *)
(* search, after every MakeMove and every UnmakeMove.                      *)
C11_SearchKeepsBoardLegal ==
    NoDuplicates(g.board) \/ ~NoDuplicates(input)

\* a legal board in mid-search, two invocations deep, after a move was undone
C11_Witness ==
    /\ NoDuplicates(input) /\ NoDuplicates(g.board)
    /\ gpc = "call" /\ Len(gstack) >= 2
    /\ g.backtracks > 0 /\ g.board # input

(* C12: whenever an invocation of recursiveSolver, top-level or nested,    *)
(* returns false, every cell and remaining are as that invocation found    *)
(* them on entry; only backtracks may differ.                              *)
C12_FalseReturnRestoresBoard ==
    (gpc \in {"return", "done"} /\ ~gret)
        => /\ g.board = Top(gentry).board
           /\ g.remaining = Top(gentry).remaining

\* a nested invocation has returned false after undoing moves of its own
C12_Witness ==
    /\ gpc = "return" /\ ~gret /\ gstack # <<>>
    /\ g.backtracks > Top(gentry).backtracks
    /\ g.board = Top(gentry).board
    /\ g.remaining = Top(gentry).remaining

\* the cells that share a row, a column or a box with each cell
PeersOf ==
    [p \in Idx \X Idx |-> { q \in Idx \X Idx : SameUnit(p[1], p[2], q[1], q[2]) }]

\* the number of values of 1..9 found nowhere in the row, column or box
NumLegal(grid, r, c) ==
    Cardinality((1..DIM) \ { grid[q[1]][q[2]] : q \in PeersOf[<<r, c>>] })

RowMajor(p) == p[1] * DIM + p[2]

(* C17: validateSolution prints no invalid-value line exactly when the     *)
(* board has no zero cell and no two equal values in a row, column or box, *)
(* though it clears each cell as it goes and never puts it back.           *)
C17_NoLineIffValidSolution ==
    checked.called
        => (checked.lines = {}
               <=> (ZeroCells(checked.board) = {} /\ NoDuplicates(checked.board)))

\* a full, rule-obeying board went through without a line and came out empty
C17_Witness ==
    /\ checked.called /\ checked.lines = {}
    /\ Complete(checked.board)
    /\ ZeroCells(g.board) = Idx \X Idx

(* C13: on a board with at least one zero cell, NextEmptyCell returns a    *)
(* zero cell whose number of true candidates is least among the zero       *)
(* cells, and of those with that least number the first in row-major       *)
(* order.                                                                  *)
C13_FewestCandidatesFirstInOrder ==
    (picked.called /\ ZeroCells(picked.board) # {})
        => LET p == <<picked.row, picked.col>>
               n == NumLegal(picked.board, picked.row, picked.col)
           IN  /\ p \in ZeroCells(picked.board)
               /\ \A q \in ZeroCells(picked.board) :
                     \/ n < NumLegal(picked.board, q[1], q[2])
                     \/ /\ n = NumLegal(picked.board, q[1], q[2])
                        /\ RowMajor(p) <= RowMajor(q)

\* the cell returned is not the first zero cell, and another zero cell
\* further on has as few candidates as it has
C13_Witness ==
    /\ picked.called
    /\ LET p == <<picked.row, picked.col>>
       IN  /\ p \in ZeroCells(picked.board)
           /\ \E q \in ZeroCells(picked.board) : RowMajor(q) < RowMajor(p)
           /\ \E q \in ZeroCells(picked.board) :
                 /\ RowMajor(p) < RowMajor(q)
                 /\ NumLegal(picked.board, p[1], p[2]) = NumLegal(picked.board, q[1], q[2])

\* a MakeMove of the search assigns, to the cell of the innermost invocation,
\* the least available value the range loop has not passed yet
NextCandidateAssigned ==
    gmakes' # gmakes
        => LET f == Top(gstack)
               v == g'.board[f.row][f.col]
           IN  /\ v \in 1..DIM
               /\ f.candidates[v]
               /\ f.val <= v
               /\ \A w \in f.val..(v - 1) : ~f.candidates[w]
               /\ Top(gstack').val = v

\* once an invocation has returned true the Game is left alone and true goes
\* up one invocation at a time
TrueGoesStraightUp ==
    (gret /\ gpc \in {"return", "done"})
        => /\ g' = g
           /\ gmakes' = gmakes
           /\ gret'
           /\ gpc' \in {"return", "done"}
           /\ (gstack # <<>> => gstack' = Pop(gstack))

(* C14: within one invocation the candidate values are assigned in         *)
(* ascending order, and once a nested call has returned true there is no   *)
(* further MakeMove or UnmakeMove: the assignment stays and true is        *)
(* returned up every enclosing invocation.                                 *)
C14_AscendingThenStraightUp ==
    [][NextCandidateAssigned /\ TrueGoesStraightUp]_vars

\* true is on its way up through an invocation whose first available value
\* had failed before a later one succeeded
C14_Witness ==
    /\ gpc = "return" /\ gret /\ gstack # <<>>
    /\ LET f == Top(gstack)
       IN  /\ g.board[f.row][f.col] = f.val
           /\ \E w \in 1..(f.val - 1) : f.candidates[w]

\* the invocations of recursiveSolver(g) entered and not yet returned from
Depth == Len(gstack) + (IF gpc = "call" THEN 1 ELSE 0)

NumZeros(grid) == Cardinality(ZeroCells(grid))

(* C15: from a starting board whose remaining is its number of zero cells, *)
(* the nesting depth of recursiveSolver never exceeds that number plus one *)
(* (at most 82), each nested invocation being entered with strictly fewer  *)
(* zero cells than its caller.                                             *)
C15_DepthWithinEmptyCells ==
    GameOf(input).remaining = NumZeros(input)
        => /\ Depth <= NumZeros(input) + 1
           /\ Depth <= DIM * DIM + 1
           /\ \A i \in 2..Len(gentry) :
                 NumZeros(gentry[i].board) < NumZeros(gentry[i - 1].board)

\* the search is as deep as it can go on a board that had four cells empty
C15_Witness ==
    /\ NumZeros(input) >= 4
    /\ gpc = "call" /\ Depth = NumZeros(input) + 1
    /\ Len(gentry) = NumZeros(input)

\* the step in which the search calls UnmakeMove
SearchUnmakes == gpc = "return" /\ ~gret /\ gstack # <<>>

\* the assignments of the search that are no longer on the board
NumUndone(gm, makes) == makes - (NumZeros(input) - NumZeros(gm.board))

EveryUnmakeMoveCounts ==
    hist # <<>>
        => LET last == hist[Len(hist)]
           IN  g.backtracks =
                   last.pre.backtracks + (IF last.op = "UnmakeMove" THEN 1 ELSE 0)

(* C18: the search never changes a cell that was non-zero when the         *)
(* top-level call was entered: in every state each given cell holds its    *)
(* original value, and the cell a MakeMove is about to be applied to       *)
(* holds 0.                                                                *)
C18_GivensUntouched ==
    /\ \A p \in Idx \X Idx :
          input[p[1]][p[2]] # 0 => g.board[p[1]][p[2]] = input[p[1]][p[2]]
    /\ gpc = "loop" => g.board[Top(gstack).row][Top(gstack).col] = 0

\* the search has returned after making and undoing moves, the givens as
\* they were and some cell that was empty now filled
C18_Witness ==
    /\ GDone /\ gmakes >= 4 /\ g.backtracks > 0
    /\ g.board # input
    /\ \A p \in Idx \X Idx :
          input[p[1]][p[2]] # 0 => g.board[p[1]][p[2]] = input[p[1]][p[2]]

\* the Board search is about to be entered on the board readBoard returned
BoardAtEntry == gpc = "done" /\ bpc = "call" /\ bstack = <<>>

(* C19: in the row/column-counter variant, after the MakeMove and          *)
(* UnmakeMove calls of readBoard and of the search, rowRemaining[r] is the *)
(* number of zero cells of row r and colRemaining[c] that of column c, and *)
(* so whenever remaining > 0 Board.NextEmptyCell returns in-range          *)
(* coordinates, never -1, of a cell that holds 0.                          *)
C19_CountersCountZeros ==
    /\ BoardAtEntry => ReadBoardGives(NewBoard, input, 0, b)
    /\ \A r \in Idx : b.rowRemaining[r] = Cardinality({ c \in Idx : b.cell[r][c] = 0 })
    /\ \A c \in Idx : b.colRemaining[c] = Cardinality({ r \in Idx : b.cell[r][c] = 0 })
    /\ bpc # "panic"
    /\ b.remaining > 0
          => LET cell == BoardNextEmptyCell(b)
             IN  /\ ~cell.panic
                 /\ cell.row \in Idx /\ cell.col \in Idx
                 /\ b.cell[cell.row][cell.col] = 0

\* the Board search is in mid-course after undoing moves, two or more cells
\* still empty
C19_Witness ==
    /\ bpc = "call" /\ Len(bstack) >= 2
    /\ b.backtracks > 0 /\ b.remaining >= 2
    /\ \A r \in Idx : b.rowRemaining[r] = Cardinality({ c \in Idx : b.cell[r][c] = 0 })
    /\ ~BoardNextEmptyCell(b).panic

=============================================================================
